---- MODULE Spec2Model ----
(***************************************************************************)
(* The brute-force sudoku solver of sudoku_bf.py as a state machine.       *)
(*                                                                         *)
(* The board is the Python dict of read_input: a function from the keys    *)
(* <<row, col>> that the input text holds to a digit 0..8 (the token       *)
(* minus one) or None.  solve is recursive; its activations are the        *)
(* frames of `stack`, the innermost last, and every step of its body is    *)
(* one action on the innermost frame.                                      *)
(***************************************************************************)
EXTENDS Integers, Sequences, FiniteSets, TLC

VARIABLES
    puzzle,   \* the dict read_input returned, as it was before solve ran
    board,    \* the dict solve mutates in place
    stack,    \* the active calls of solve, outermost first
    ret,      \* what the call that returned last handed to its caller
    status    \* where main is: "call", "solving", or how it ended

vars == <<puzzle, board, stack, ret, status>>

----------------------------------------------------------------------------
(* Program constants *)

N == 9
BoxSize == 3
LastCol == 8
None == -2      \* Python's None; no token of the inputs below parses to it

(* Bounds of the model *)

MaxFree == 4    \* at most this many cells of an input are blank
MaxDepth == 90  \* cap on the recursion the actions allow; solve stays below

----------------------------------------------------------------------------
(* The 27 rule groups *)

Keys == (0 .. N - 1) \X (0 .. N - 1)

RULES ==
    {{<<r, c>> : c \in 0 .. N - 1} : r \in 0 .. N - 1}
    \cup {{<<r, c>> : r \in 0 .. N - 1} : c \in 0 .. N - 1}
    \cup {{<<BoxSize * br + i, BoxSize * bc + j>> :
              i \in 0 .. BoxSize - 1, j \in 0 .. BoxSize - 1} :
          br \in 0 .. BoxSize - 1, bc \in 0 .. BoxSize - 1}

----------------------------------------------------------------------------
(* read_input: the text of the file, a sequence of lines of tokens *)

IntTokens == {ToString(n) : n \in 0 .. N + 1}

\* int(value): the number a token spells
IntOf(tok) == CHOOSE n \in 0 .. N + 1 : ToString(n) = tok

\* board[row, col] = int(value) - 1, or None on ValueError
read_input(lines) ==
    LET keys == UNION {{<<r, c>> : c \in 0 .. Len(lines[r + 1]) - 1} :
                       r \in 0 .. Len(lines) - 1}
    IN  [k \in keys |->
            LET tok == lines[k[1] + 1][k[2] + 1]
            IN  IF tok \in IntTokens THEN IntOf(tok) - 1 ELSE None]

----------------------------------------------------------------------------
(* next_key *)

\* next_key without the step to the next row (a faulty variant)
next_key_same_row(row, col) ==
    IF col = LastCol THEN <<row, 0>> ELSE <<row, col + 1>>

next_key(row, col) ==
    IF col = LastCol THEN <<row + 1, 0>> ELSE <<row, col + 1>>

----------------------------------------------------------------------------
(* possible: three scans in the order of the code, each stopping at the    *)
(* first match; reading a key the dict does not hold raises KeyError.      *)

RECURSIVE Scan(_, _, _, _)
\* any(board[k] == value for k in cells), cells[i ..] still to read
Scan(b, cells, value, i) ==
    IF i > Len(cells) THEN "none"
    ELSE IF cells[i] \notin DOMAIN b THEN "KeyError"
    ELSE IF b[cells[i]] = value THEN "found"
    ELSE Scan(b, cells, value, i + 1)

\* board[key[0], c] for c in range(9)
RowCells(key) == [i \in 1 .. N |-> <<key[1], i - 1>>]

\* the column scan reading board[key[0], r] (a faulty variant)
ColCellsTransposed(key) == [i \in 1 .. N |-> <<key[1], i - 1>>]

\* board[r, key[1]] for r in range(9)
ColCells(key) == [i \in 1 .. N |-> <<i - 1, key[2]>>]

\* the box scan with topC taken from the row (a faulty variant)
BoxCellsRowTwice(key) ==
    LET topR == BoxSize * (key[1] \div BoxSize)
        topC == BoxSize * (key[1] \div BoxSize)
    IN  [i \in 1 .. BoxSize * BoxSize |->
            <<topR + ((i - 1) \div BoxSize), topC + ((i - 1) % BoxSize)>>]

\* board[r, c] for r in range(topR, topR + 3) for c in range(topC, topC + 3)
BoxCells(key) ==
    LET topR == BoxSize * (key[1] \div BoxSize)
        topC == BoxSize * (key[2] \div BoxSize)
    IN  [i \in 1 .. BoxSize * BoxSize |->
            <<topR + ((i - 1) \div BoxSize), topC + ((i - 1) % BoxSize)>>]

possible(b, key, value) ==
    LET inRow == Scan(b, RowCells(key), value, 1)
        inCol == Scan(b, ColCells(key), value, 1)
        inBox == Scan(b, BoxCells(key), value, 1)
    IN  IF inRow = "KeyError" THEN "KeyError"
        ELSE IF inRow = "found" THEN "False"
        ELSE IF inCol = "KeyError" THEN "KeyError"
        ELSE IF inCol = "found" THEN "False"
        ELSE IF inBox = "KeyError" THEN "KeyError"
        ELSE IF inBox = "found" THEN "False"
        ELSE "True"

----------------------------------------------------------------------------
(* solve *)

\* a new activation solve(board, key): value is the index of the loop's
\* iteration, entry the dict's content when the call was made
Frame(key, b) == [key |-> key, pc |-> "enter", value |-> 0, entry |-> b]

Top == stack[Len(stack)]

Pop == SubSeq(stack, 1, Len(stack) - 1)

SetTop(f) == [stack EXCEPT ![Len(stack)] = f]

\* board[key] is None
IsUnset(b, key) == b[key] = None

\* board[key] = value
Assigned(b, key, value) == [b EXCEPT ![key] = value]

\* the retraction left out (a faulty variant)
RetractedNot(b, key) == b

\* the retraction made at the key after the cursor (a faulty variant)
RetractedAtNext(b, key) ==
    LET n == next_key(key[1], key[2])
    IN  IF n \in DOMAIN b THEN [b EXCEPT ![n] = None] ELSE b

\* board[key] = None
Retracted(b, key) == [b EXCEPT ![key] = None]

\* for value in range(9): the loop is over once the index reaches this
RangeEnd == N

\* the digits tried from the highest down (a faulty variant)
LoopValueDesc(i) == N - 1 - i

\* for value in range(9): the value of iteration i = 0, 1, ...
LoopValue(i) == i

Running == status = "solving" /\ stack # <<>>

\* main: solution = solve(board)
MainCall ==
    /\ status = "call"
    /\ status' = "solving"
    /\ stack' = <<Frame(<<0, 0>>, board)>>
    /\ ret' = "pending"
    /\ UNCHANGED <<puzzle, board>>

\* if key not in board: return board
SolveBase ==
    /\ Running
    /\ Top.pc = "enter"
    /\ Top.key \notin DOMAIN board
    /\ stack' = Pop
    /\ ret' = "board"
    /\ UNCHANGED <<puzzle, board, status>>

\* elif board[key] is None: for value in range(9):
SolveFree ==
    /\ Running
    /\ Top.pc = "enter"
    /\ Top.key \in DOMAIN board
    /\ IsUnset(board, Top.key)
    /\ stack' = SetTop([Top EXCEPT !.pc = "loop", !.value = 0])
    /\ UNCHANGED <<puzzle, board, ret, status>>

\* return solve(board, next_key(*key)): the call
SolveGiven ==
    /\ Running
    /\ Top.pc = "enter"
    /\ Top.key \in DOMAIN board
    /\ ~IsUnset(board, Top.key)
    /\ Len(stack) < MaxDepth
    /\ stack' = Append(SetTop([Top EXCEPT !.pc = "tail"]),
                       Frame(next_key(Top.key[1], Top.key[2]), board))
    /\ ret' = "pending"
    /\ UNCHANGED <<puzzle, board, status>>

\* return solve(board, next_key(*key)): the return
TailReturn ==
    /\ Running
    /\ Top.pc = "tail"
    /\ ret # "pending"
    /\ stack' = Pop
    /\ UNCHANGED <<puzzle, board, ret, status>>

\* if not possible(board, key, value): continue
LoopSkip ==
    /\ Running
    /\ Top.pc = "loop"
    /\ Top.value < RangeEnd
    /\ possible(board, Top.key, LoopValue(Top.value)) = "False"
    /\ stack' = SetTop([Top EXCEPT !.value = @ + 1])
    /\ UNCHANGED <<puzzle, board, ret, status>>

\* board[key] = value; solution = solve(board, next_key(*key))
LoopAssign ==
    /\ Running
    /\ Top.pc = "loop"
    /\ Top.value < RangeEnd
    /\ possible(board, Top.key, LoopValue(Top.value)) = "True"
    /\ Len(stack) < MaxDepth
    /\ board' = Assigned(board, Top.key, LoopValue(Top.value))
    /\ stack' = Append(SetTop([Top EXCEPT !.pc = "wait"]),
                       Frame(next_key(Top.key[1], Top.key[2]), board'))
    /\ ret' = "pending"
    /\ UNCHANGED <<puzzle, status>>

\* possible raises KeyError: nothing catches it, main dies with it
LoopKeyError ==
    /\ Running
    /\ Top.pc = "loop"
    /\ Top.value < RangeEnd
    /\ possible(board, Top.key, LoopValue(Top.value)) = "KeyError"
    /\ stack' = <<>>
    /\ status' = "KeyError"
    /\ UNCHANGED <<puzzle, board, ret>>

\* if solution is not None: return solution
ReturnSolution ==
    /\ Running
    /\ Top.pc = "wait"
    /\ ret = "board"
    /\ stack' = Pop
    /\ UNCHANGED <<puzzle, board, ret, status>>

\* board[key] = None, and on to the next value
Retract ==
    /\ Running
    /\ Top.pc = "wait"
    /\ ret = "None"
    /\ board' = Retracted(board, Top.key)
    /\ stack' = SetTop([Top EXCEPT !.pc = "loop", !.value = @ + 1])
    /\ ret' = "pending"
    /\ UNCHANGED <<puzzle, status>>

\* the loop is exhausted: return None
LoopEnd ==
    /\ Running
    /\ Top.pc = "loop"
    /\ Top.value >= RangeEnd
    /\ stack' = Pop
    /\ ret' = "None"
    /\ UNCHANGED <<puzzle, board, status>>

\* print_solution: the dict comprehension adds 1 to every value, then the
\* format string reads all 81 keys
print_solution(solution) ==
    IF \E k \in DOMAIN solution : solution[k] = None THEN "TypeError"
    ELSE IF \E k \in Keys : k \notin DOMAIN solution THEN "KeyError"
    ELSE "printed"

\* if solution is None: raise Exception("no possible solution")
MainFail ==
    /\ status = "solving"
    /\ stack = <<>>
    /\ ret = "None"
    /\ status' = "no possible solution"
    /\ UNCHANGED <<puzzle, board, stack, ret>>

\* print_solution(solution)
MainPrint ==
    /\ status = "solving"
    /\ stack = <<>>
    /\ ret = "board"
    /\ status' = print_solution(board)
    /\ UNCHANGED <<puzzle, board, stack, ret>>

----------------------------------------------------------------------------
(* The inputs: the first grid solve finds on the empty puzzle, with up to  *)
(* MaxFree of the cells FreeCand blanked, at most one given replaced by    *)
(* another token, and at most one line a token short.                      *)

BaseRows ==
    << <<1, 2, 3, 4, 5, 6, 7, 8, 9>>,
       <<4, 5, 6, 7, 8, 9, 1, 2, 3>>,
       <<7, 8, 9, 1, 2, 3, 4, 5, 6>>,
       <<2, 1, 4, 3, 6, 5, 8, 9, 7>>,
       <<3, 6, 5, 8, 9, 7, 2, 1, 4>>,
       <<8, 9, 7, 2, 1, 4, 3, 6, 5>>,
       <<5, 3, 1, 6, 4, 2, 9, 7, 8>>,
       <<6, 4, 2, 9, 7, 8, 5, 3, 1>>,
       <<9, 7, 8, 5, 3, 1, 6, 4, 2>> >>

FreeCand == {<<1, 3>>, <<1, 6>>, <<2, 3>>, <<2, 4>>, <<5, 3>>, <<5, 4>>}

OverCells == {<<2, 4>>}

OverTokens == {"0", "1", "10"}

\* the rows that may lack their last token; row N stands for none
ShortRows == {1, N}

Overrides == {[cell |-> <<N, N>>, tok |-> "."]} \cup
             [cell : OverCells, tok : OverTokens]

Text(F, ov, short) ==
    [r \in 1 .. N |->
        [c \in 1 .. (IF r - 1 = short THEN N - 1 ELSE N) |->
            IF <<r - 1, c - 1>> \in F THEN "."
            ELSE IF ov.cell = <<r - 1, c - 1>> THEN ov.tok
            ELSE ToString(BaseRows[r][c])]]

Init ==
    \E F \in SUBSET FreeCand, ov \in Overrides, short \in ShortRows :
        /\ Cardinality(F) <= MaxFree
        /\ ov.cell \notin F
        /\ puzzle = read_input(Text(F, ov, short))
        /\ board = puzzle
        /\ stack = <<>>
        /\ ret = "pending"
        /\ status = "call"

Next ==
    \/ MainCall
    \/ SolveBase
    \/ SolveFree
    \/ SolveGiven
    \/ TailReturn
    \/ LoopSkip
    \/ LoopAssign
    \/ LoopKeyError
    \/ ReturnSolution
    \/ Retract
    \/ LoopEnd
    \/ MainFail
    \/ MainPrint

Spec == Init /\ [][Next]_vars

\* nothing but solve runs: a step that can be taken is taken
LiveSpec == Spec /\ WF_vars(Next)

----------------------------------------------------------------------------
(* possible called on its own, on any cell of any input grid, as often as  *)
(* the caller likes: the activation is the one frame of stack, ret what    *)
(* the call returned.                                                      *)

ProbeKeys == FreeCand \cup {<<0, 0>>, <<N - 1, N - 1>>}

CallPossible ==
    /\ status = "call"
    /\ \E key \in ProbeKeys, value \in 0 .. N - 1 :
        /\ key \in DOMAIN board
        /\ stack' = <<[key |-> key, pc |-> "possible", value |-> value,
                       entry |-> board]>>
        /\ ret' = possible(board, key, value)
    /\ UNCHANGED <<puzzle, board, status>>

PossibleSpec == Init /\ [][CallPossible]_vars

----------------------------------------------------------------------------
(* What the claims speak of *)

\* the position of a key in row-major order
Idx(key) == key[1] * N + key[2]

Total(b) == DOMAIN b = Keys

InRange(b) == \A k \in DOMAIN b : b[k] = None \/ b[k] \in 0 .. N - 1

\* two set cells of one rule group hold the same digit
Conflict(b) ==
    \E g \in RULES : \E k1, k2 \in g \cap DOMAIN b :
        k1 # k2 /\ b[k1] # None /\ b[k1] = b[k2]

Malformed(b) == ~Total(b) \/ ~InRange(b) \/ Conflict(b)

\* every rule group holds each digit exactly once: nine cells, nine digits
ValidSolution(b) ==
    /\ Total(b)
    /\ \A g \in RULES : {b[k] : k \in g} = 0 .. N - 1

FreeCells(b) == {k \in DOMAIN b : b[k] = None}

Fill(b, a) == [k \in DOMAIN b |-> IF k \in DOMAIN a THEN a[k] ELSE b[k]]

\* a is a completion of b: digits for its free cells that make it valid
IsCompletion(b, a) == ValidSolution(Fill(b, a))

Satisfiable(b) == \E a \in [FreeCells(b) -> 0 .. N - 1] : IsCompletion(b, a)

\* a comes before c when their cells are read in row-major order
LexLess(a, c) ==
    \E k \in DOMAIN a :
        /\ a[k] < c[k]
        /\ \A j \in DOMAIN a : Idx(j) < Idx(k) => a[j] = c[j]

SolveReturned == status # "call" /\ stack = <<>> /\ ret # "pending"

Solved == SolveReturned /\ ret = "board"

Unsat == SolveReturned /\ ret = "None"

----------------------------------------------------------------------------
(* The claims *)

\* C1: whenever solve returns a board for an 81-cell grid, every row,
\* column and box of it holds each digit exactly once and no cell is unset,
\* whatever the givens.
C1_Validity == (Solved /\ Total(puzzle)) => ValidSolution(board)

\* C2: when two givens of one rule group hold the same digit, solve never
\* returns a board and main never prints one.
C2_ConflictIsUnsat == Conflict(puzzle) => ~Solved /\ status # "printed"

\* C3: on a malformed grid (a missing cell, a digit out of range, givens
\* in conflict) solve is never entered and no cell is ever assigned: main
\* stays before the call or ends with the invalid-puzzle outcome.
C3_ValidatedBeforeSearch ==
    Malformed(puzzle) =>
        /\ status \in {"call", "invalid puzzle"}
        /\ stack = <<>>
        /\ board = puzzle

\* C4: on a total grid whose givens are not in conflict, solve returns a
\* valid solution if the free cells have a completion, and returns None only
\* if they have none.
C4_Complete ==
    (SolveReturned /\ Total(puzzle) /\ ~Conflict(puzzle)) =>
        LET sat == Satisfiable(puzzle)
        IN  /\ sat => ret = "board" /\ ValidSolution(board)
            /\ ret = "None" => ~sat

C4_Witness ==
    /\ Solved
    /\ Total(puzzle)
    /\ ~Conflict(puzzle)
    /\ Cardinality(FreeCells(puzzle)) >= 3
    /\ ValidSolution(board)

\* C5: in every state of a run of solve each given cell holds its input
\* digit, and the board has the cells of the input and no others.
C5_GivensImmutable ==
    /\ DOMAIN board = DOMAIN puzzle
    /\ \A k \in DOMAIN puzzle : puzzle[k] # None => board[k] = puzzle[k]

C5_Witness ==
    /\ Running
    /\ Top.pc = "wait"
    /\ ret = "None"
    /\ board # puzzle
    /\ \E k \in DOMAIN puzzle : puzzle[k] # None

\* C6: on a satisfiable grid the board solve returns is the completion that
\* comes first when the free cells are read in row-major order.
C6_FirstSolution ==
    (Solved /\ Total(puzzle) /\ ~Conflict(puzzle)) =>
        LET F == FreeCells(puzzle)
            found == [k \in F |-> board[k]]
        IN  Satisfiable(puzzle) =>
                /\ board = Fill(puzzle, found)
                /\ IsCompletion(puzzle, found)
                /\ \A a \in [F -> 0 .. N - 1] :
                       LexLess(a, found) => ~IsCompletion(puzzle, a)

\* a puzzle with more than one completion has been solved
C6_Witness ==
    /\ Solved
    /\ Total(puzzle)
    /\ ~Conflict(puzzle)
    /\ \E a \in [FreeCells(puzzle) -> 0 .. N - 1] :
           /\ IsCompletion(puzzle, a)
           /\ Fill(puzzle, a) # board

\* no cell of key's row, column or box other than key holds value
NoOtherHolds(b, key, value) ==
    \A g \in RULES : key \in g =>
        \A k \in g \ {key} : b[k] # value

\* C7 as stated: on every total grid, for every key and value, possible
\* returns true exactly if no other cell of key's groups holds value.
C7_OtherCellsOnly ==
    (stack # <<>> /\ Total(board)) =>
        (ret = "True" <=> NoOtherHolds(board, Top.key, Top.value))

\* C7 amended: possible returns true exactly if no cell of key's row, column
\* or box, key's own cell included, holds value: it is false on a cell that
\* holds value already; the call leaves the grid as it was.
C7_AnyCell ==
    (stack # <<>> /\ Total(board)) =>
        /\ ret \in {"True", "False"}
        /\ ret = "True" <=>
               (NoOtherHolds(board, Top.key, Top.value)
                    /\ board[Top.key] # Top.value)
        /\ board = Top.entry
        /\ board = puzzle

\* possible has been called on a cell that holds value, alone in its groups
C7_Witness ==
    /\ stack # <<>>
    /\ Total(board)
    /\ board[Top.key] = Top.value
    /\ NoOtherHolds(board, Top.key, Top.value)
    /\ ret = "False"

\* C8: in every state of a run of solve, the first included, no rule group
\* holds the same digit in two set cells.
C8_Legal == ~Conflict(board)

\* C9: a call of solve that returns None leaves the board as it was when
\* the call was made; when the outermost call returns None the board is the
\* input; and until a solution is found every free cell after the cursor
\* is unset.
C9_RetractionRestores ==
    /\ (Running /\ Top.pc = "loop" /\ Top.value >= RangeEnd)
           => board = Top.entry
    /\ (Running /\ Top.pc = "tail" /\ ret = "None") => board = Top.entry
    /\ Unsat => board = puzzle
    /\ (Running /\ ret # "board") =>
           \A k \in FreeCells(puzzle) :
               Idx(k) > Idx(Top.key) => board[k] = None

\* a call is about to return None after it assigned a digit and took it back
C9_Witness ==
    /\ Running
    /\ Top.pc = "loop"
    /\ Top.value >= RangeEnd
    /\ \E v \in 0 .. N - 1 : possible(board, Top.key, v) = "True"

\* C10 as stated, its bound: at most 81 calls of solve are active at once.
C10_DepthAtMost81 == Len(stack) <= N * N

\* the keys of the active calls advance strictly in row-major order, and at
\* most N * N + 1 calls are active: one per cell and the one past the last
C10_Cursor ==
    /\ \A i \in 1 .. Len(stack) - 1 :
           Idx(stack[i].key) < Idx(stack[i + 1].key)
    /\ Len(stack) <= N * N + 1

\* C10 amended: on every 81-cell grid solve returns, a board or None; the
\* cursor of the nested calls only advances, so no cell is visited twice on
\* a path, and at most 82 calls of solve are active at once.
C10_Terminates == []C10_Cursor /\ (Total(puzzle) ~> SolveReturned)

\* 82 calls of solve are active: the call past the last cell is running
C10_Witness == Len(stack) = N * N + 1 /\ Top.key = <<N, 0>>

====
